---------------------------- MODULE Spec2Model ----------------------------
(***************************************************************************)
(* A model of src/app.py: the single-endpoint ETL service POST /run that   *)
(* validates a JSON payload, queries the Google Ads reporting API, maps    *)
(* every record to a warehouse row and appends the rows to a BigQuery      *)
(* table.                                                                  *)
(*                                                                         *)
(* Python values are modelled as records [t |-> type, v |-> value]; a      *)
(* Python str is the sequence of its characters, so that the substring     *)
(* test `'start_date' in request_json` of a str payload is computed, not   *)
(* assumed.  A Python float is modelled as an IEEE-754 binary64 value      *)
(* [sig |-> 53 bits, most significant first, exp |-> exponent of the       *)
(* leading bit], the form float.hex() prints.                              *)
(***************************************************************************)
EXTENDS Integers, Sequences, FiniteSets, TLC

VARIABLES
    pc,         \* per request: where run_job stands
    http_body,  \* per request: the HTTP body flask received
    rows_to_insert, \* per request: the list the running extractor builds
    nBatches,   \* per request: the batches the stream delivered so far
    ads_data,   \* per request: the list fetch_google_ads_data returned
    raised,     \* per request: the exception raised while serving it
    answer,     \* per request: the destination's answer to the insert
    errors,     \* per request: what insert_rows_json returned
    completed,  \* per request: the calls that returned without raising
    response,   \* per request: the (body, status) sent
    path,       \* per request: the stages the execution went through
    nExtract,   \* per request: calls of fetch_google_ads_data
    nLoad,      \* per request: calls of load_data_to_bigquery
    submitted,  \* per request: the batches handed to insert_rows_json
    table,      \* the destination table: the rows durably written
    platform,   \* the platform's behaviour for the extractor taken alone
    fetched     \* what the extractor taken alone produced

vars == <<pc, http_body, rows_to_insert, nBatches, ads_data, raised, answer,
          errors, completed, response, path, nExtract, nLoad, submitted,
          table, platform, fetched>>

(***************************************************************************)
(* Bounds of the model.                                                    *)
(***************************************************************************)
MaxRows == 2        \* records over a whole result stream
MaxBatches == 2     \* batches of a result stream

(***************************************************************************)
(* Python floats: int / int true division (line 84).                       *)
(***************************************************************************)
SigBits == 53

\* The binary digits of the natural number n, most significant first.
RECURSIVE BitsOf(_)
BitsOf(n) == IF n < 2 THEN <<n>> ELSE Append(BitsOf(n \div 2), n % 2)

Zeros(k) == [i \in 1..k |-> 0]

\* The next k binary digits of r / b (0 <= r < b), with the last remainder.
RECURSIVE FracBits(_, _, _, _)
FracBits(r, b, k, acc) ==
    IF k = 0 THEN [bits |-> acc, rem |-> r]
    ELSE LET r2 == 2 * r
             bit == IF r2 >= b THEN 1 ELSE 0
         IN FracBits(r2 - bit * b, b, k - 1, Append(acc, bit))

\* For 0 < r < b: how many leading zero digits r / b has after the point.
RECURSIVE LeadingZeros(_, _)
LeadingZeros(r, b) == IF 2 * r >= b THEN 0 ELSE 1 + LeadingZeros(2 * r, b)

\* r * 2^k.
RECURSIVE Shl(_, _)
Shl(r, k) == IF k = 0 THEN r ELSE Shl(2 * r, k - 1)

\* bits + 1, for a sequence of binary digits (most significant first); an
\* all-ones sequence overflows to 1 followed by zeros, one digit longer.
RECURSIVE Increment(_)
Increment(bits) ==
    IF bits = <<>> THEN <<1>>
    ELSE LET n == Len(bits)
             head == SubSeq(bits, 1, n - 1)
         IN IF bits[n] = 0 THEN Append(head, 1)
            ELSE Append(Increment(head), 0)

\* Round a (SigBits+1)-digit significand with a sticky flag to SigBits
\* digits, to nearest, ties to even; exp is the exponent of the first digit.
RoundNearestEven(bits, sticky, exp) ==
    LET sig == SubSeq(bits, 1, SigBits)
        guard == bits[SigBits + 1]
        up == guard = 1 /\ (sticky \/ sig[SigBits] = 1)
        inc == Increment(sig)
    IN IF ~up THEN [sig |-> sig, exp |-> exp]
       ELSE IF Len(inc) = SigBits THEN [sig |-> inc, exp |-> exp]
       ELSE [sig |-> SubSeq(inc, 1, SigBits), exp |-> exp + 1]

FloatZero == [sig |-> Zeros(SigBits), exp |-> 0]

\* Python's a / b for ints 0 <= a < 2^31, 0 < b <= 2^30: the binary64
\* value nearest to the quotient (CPython rounds half to even).
TrueDiv(a, b) ==
    IF a = 0 THEN FloatZero
    ELSE LET q == a \div b
             r == a % b
         IN IF q >= 1
            THEN LET ib == BitsOf(q)
                     fb == FracBits(r, b, SigBits + 1 - Len(ib), <<>>)
                 IN RoundNearestEven(ib \o fb.bits, fb.rem # 0, Len(ib) - 1)
            ELSE LET z == LeadingZeros(r, b)
                     fb == FracBits(Shl(r, z), b, SigBits + 1, <<>>)
                 IN RoundNearestEven(fb.bits, fb.rem # 0, -(z + 1))


(***************************************************************************)
(* Python values, and the three operations run_job applies to the payload: *)
(* truth value (`not x`), membership (`k in x`) and subscription (`x[k]`). *)
(***************************************************************************)
PyNone == [t |-> "none", v |-> 0]
PyBool(b) == [t |-> "bool", v |-> b]
PyInt(n) == [t |-> "int", v |-> n]
PyStr(chars) == [t |-> "str", v |-> chars]
PyList(elems) == [t |-> "list", v |-> elems]
PyDict(items) == [t |-> "dict", v |-> items]

\* The str literals 'start_date' and 'end_date' of lines 31, 34 and 35.
K_start_date == <<"s", "t", "a", "r", "t", "_", "d", "a", "t", "e">>
K_end_date == <<"e", "n", "d", "_", "d", "a", "t", "e">>

\* bool(x)
Truthy(x) ==
    CASE x.t = "none" -> FALSE
      [] x.t = "bool" -> x.v
      [] x.t = "int" -> x.v # 0
      [] x.t = "str" -> Len(x.v) > 0
      [] x.t = "list" -> Len(x.v) > 0
      [] x.t = "dict" -> DOMAIN x.v # {}

IsSubstring(k, s) ==
    \E i \in 0..(Len(s) - Len(k)) : SubSeq(s, i + 1, i + Len(k)) = k

\* `key in x` for a str key: "True", "False" or "TypeError".
PyIn(key, x) ==
    CASE x.t = "dict" -> IF key \in DOMAIN x.v THEN "True" ELSE "False"
      [] x.t = "list" ->
           IF \E i \in 1..Len(x.v) : x.v[i].t = "str" /\ x.v[i].v = key
           THEN "True" ELSE "False"
      [] x.t = "str" -> IF IsSubstring(key, x.v) THEN "True" ELSE "False"
      [] OTHER -> "TypeError"

\* Whether x[key] with a str key is defined (a dict) or raises TypeError
\* (str and list indices must be integers).
SubscriptableByStr(x) == x.t = "dict"

(***************************************************************************)
(* HTTP bodies and flask.request.get_json(silent=True) (line 29).          *)
(***************************************************************************)
AbsentBody == [kind |-> "absent", value |-> PyNone]
NotJsonBody == [kind |-> "not_json", value |-> PyNone]
JsonBody(val) == [kind |-> "json", value |-> val]

get_json(b) == IF b.kind = "json" THEN b.value ELSE PyNone

(***************************************************************************)
(* Exceptions and responses.  A response is (body, status); a body is its  *)
(* format text with the values formatted into it.                          *)
(***************************************************************************)
NoExc == [msg |-> "", errors |-> <<>>]
Exc(msg) == [msg |-> msg, errors |-> <<>>]
NoResponse == [status |-> 0, body |-> [text |-> "", n |-> 0, e |-> NoExc]]

InvalidRequestResponse ==
    [status |-> 400,
     body |-> [text |-> "Invalid request: JSON payload with 'start_date' and 'end_date' is required.",
               n |-> 0, e |-> NoExc]]

NoDataResponse ==
    [status |-> 200,
     body |-> [text |-> "Successfully completed. No data to load.",
               n |-> 0, e |-> NoExc]]

SuccessResponse(n) ==
    [status |-> 200,
     body |-> [text |-> "Success: Loaded {n} rows.", n |-> n, e |-> NoExc]]

ErrorResponse(e) ==
    [status |-> 500,
     body |-> [text |-> "An error occurred: {e}", n |-> 0, e |-> e]]

\* What flask answers when the view function raises: the exception is not
\* caught by run_job (it is raised outside the try of line 39).
FlaskInternalServerError ==
    [status |-> 500,
     body |-> [text |-> "Internal Server Error", n |-> 0, e |-> NoExc]]

(***************************************************************************)
(* The validation of lines 31-35: "invalid" (the 400 of line 32),          *)
(* "TypeError" (raised by `in` at line 31 or by the subscription of line   *)
(* 34) or "ok".                                                            *)
(***************************************************************************)
Validate(payload) ==
    IF ~Truthy(payload) THEN "invalid"
    ELSE IF PyIn(K_start_date, payload) = "TypeError" THEN "TypeError"
    ELSE IF PyIn(K_start_date, payload) = "False" THEN "invalid"
    ELSE IF PyIn(K_end_date, payload) = "False" THEN "invalid"
    ELSE IF ~SubscriptableByStr(payload) THEN "TypeError"
    ELSE "ok"


(***************************************************************************)
(* The platform's records (GoogleAdsRow) and result streams.  An enum      *)
(* field carries its numeric value and its name.                           *)
(***************************************************************************)
Enum(value, name) == [value |-> value, name |-> name]

GoogleAdsRow(campaign_id, date, cost_micros, device, network, customer_id) ==
    [campaign |-> [id |-> campaign_id],
     segments |-> [date |-> date, device |-> device,
                   ad_network_type |-> network],
     metrics |-> [cost_micros |-> cost_micros],
     customer |-> [id |-> customer_id]]

RecA == GoogleAdsRow(11, "2024-01-01", 1500000, Enum(2, "MOBILE"),
                     Enum(2, "SEARCH"), 7)
RecB == GoogleAdsRow(12, "2024-01-02", 123, Enum(4, "DESKTOP"),
                     Enum(4, "CONTENT"), 7)
RecC == GoogleAdsRow(11, "2024-01-31", 2000000, Enum(3, "TABLET"),
                     Enum(2, "SEARCH"), 8)
RecD == GoogleAdsRow(13, "2024-01-02", 0, Enum(4, "DESKTOP"),
                     Enum(3, "SEARCH_PARTNERS"), 7)

RecE == GoogleAdsRow(14, "2024-01-15", 1, Enum(6, "CONNECTED_TV"),
                     Enum(6, "YOUTUBE_WATCH"), 7)
RecF == GoogleAdsRow(15, "2024-01-16", 2147483647, Enum(5, "OTHER"),
                     Enum(7, "MIXED"), 9)

\* The records the platform answers with: in the service, and for the
\* extractor taken alone.
ServiceRecords == {RecA, RecB}
ExtractorRecords == {RecA, RecB, RecC, RecD, RecE, RecF}

\* The sequences of at most n elements of S.
SeqsUpTo(S, n) == UNION {[1..k -> S] : k \in 0..n}

\* The streams of at most nb batches holding at most n records in all.
RECURSIVE StreamsOf(_, _, _)
StreamsOf(S, nb, n) ==
    IF nb = 0 THEN {<<>>}
    ELSE {<<>>} \cup
         UNION {{<<b>> \o s : s \in StreamsOf(S, nb - 1, n - Len(b))} :
                b \in SeqsUpTo(S, n)}

ExtractorStreams == StreamsOf(ExtractorRecords, MaxBatches, MaxRows)

(***************************************************************************)
(* fetch_google_ads_data (lines 56-95).                                    *)
(***************************************************************************)
\* The division of line 84 done as floor division.
CostFloorDiv(cost_micros) ==
    LET q == cost_micros \div 1000000
    IN IF q = 0 THEN FloatZero
       ELSE [sig |-> BitsOf(q) \o Zeros(SigBits - Len(BitsOf(q))),
             exp |-> Len(BitsOf(q)) - 1]

\* Line 84, computed once for each cost_micros of the model's records.
CostTable ==
    [m \in {r.metrics.cost_micros : r \in ExtractorRecords} |->
        TrueDiv(m, 1000000)]

\* Line 84.
Cost(cost_micros) ==
    IF cost_micros \in DOMAIN CostTable THEN CostTable[cost_micros]
    ELSE TrueDiv(cost_micros, 1000000)

\* Lines 84-94: the dict appended for one record.
MapRow(row) ==
    [event_date |-> row.segments.date,
     external_customer_id |-> row.customer.id,
     campaign_id |-> row.campaign.id,
     ad_network_type |-> row.segments.ad_network_type.name,
     device |-> row.segments.device.name,
     cost |-> Cost(row.metrics.cost_micros)]

\* Lines 82-94: the inner loop over batch.results, appending to acc.
RECURSIVE AppendBatch(_, _)
AppendBatch(acc, results) ==
    IF results = <<>> THEN acc
    ELSE AppendBatch(Append(acc, MapRow(Head(results))), Tail(results))

\* An outer loop that keeps only the rows of the last batch.
RECURSIVE ConsumeStreamLastBatch(_, _)
ConsumeStreamLastBatch(acc, batches) ==
    IF batches = <<>> THEN acc
    ELSE ConsumeStreamLastBatch(AppendBatch(<<>>, Head(batches)),
                                Tail(batches))

\* Lines 80-94: the outer loop over the stream's batches.
RECURSIVE ConsumeStream(_, _)
ConsumeStream(acc, batches) ==
    IF batches = <<>> THEN acc
    ELSE ConsumeStream(AppendBatch(acc, Head(batches)), Tail(batches))

\* The places where the extractor can raise: the calls of lines 60, 61, 63
\* and 78, and the iteration of line 81 (the stream breaks after some
\* batches).
FailStages ==
    {"safe_load", "load_from_dict", "get_service", "search_stream",
     "stream"}

\* What the platform does for one call: the stage that raises ("none": no
\* stage does) and the stream search_stream returns (none when a call
\* before it raises).
PlatformOutcomes(streams) ==
    {[fail |-> f, stream |-> <<>>] : f \in FailStages \ {"stream"}}
        \cup [fail : {"stream", "none"}, stream : streams]

\* fetch_google_ads_data: the exception it raises (NoExc: none) and the
\* list it returns.  The dates are formatted into the query text of lines
\* 66-76, which goes to the platform; what the platform answers is outcome.
fetch_google_ads_data(start_date, end_date, outcome) ==
    IF outcome.fail \in FailStages
    THEN [exc |-> Exc(outcome.fail), rows |-> <<>>]
    ELSE [exc |-> NoExc, rows |-> ConsumeStream(<<>>, outcome.stream)]

(***************************************************************************)
(* load_data_to_bigquery (lines 98-105) and the streaming insert it calls. *)
(***************************************************************************)
\* The elements of a set of numbers, ascending.
RECURSIVE Ascending(_)
Ascending(S) ==
    IF S = {} THEN <<>>
    ELSE LET m == CHOOSE x \in S : \A y \in S : x <= y
         IN <<m>> \o Ascending(S \ {m})

\* The rows of batch whose (0-based) index is not in rejected, in order.
RECURSIVE Accepted(_, _, _)
Accepted(batch, rejected, i) ==
    IF i > Len(batch) THEN <<>>
    ELSE (IF (i - 1) \in rejected THEN <<>> ELSE <<batch[i]>>)
         \o Accepted(batch, rejected, i + 1)

\* bq_client.insert_rows_json(table_id, rows) (line 102): the destination
\* rejects the rows whose index is in rejected and writes the others; it
\* returns one error descriptor per rejected row.
insert_rows_json(batch, rejected) ==
    [errors |-> [i \in 1..Cardinality(rejected) |->
                    [index |-> Ascending(rejected)[i], reason |-> "invalid"]],
     written |-> Accepted(batch, rejected, 1)]

\* A loader that raises only when every row was rejected.
LoadRaisesIgnoringPartial(batch, errs) ==
    IF Len(errs) = Len(batch)
    THEN [msg |-> "BigQuery load job failed: {errors}", errors |-> errs]
    ELSE NoExc

\* Lines 103-105: the exception load_data_to_bigquery raises for the
\* returned error list (NoExc: it returns normally).
LoadRaises(batch, errs) ==
    IF errs # <<>>
    THEN [msg |-> "BigQuery load job failed: {errors}", errors |-> errs]
    ELSE NoExc


(***************************************************************************)
(* run_job after validation (lines 39-54): what it does with the outcome   *)
(* of the extractor and of the loader.                                     *)
(***************************************************************************)
NotRaised == [at |-> "none", exc |-> NoExc]

\* A handler that takes an extractor failure for an empty result.
RunJobAfterFetchErrorAsNoData(res) ==
    IF res.exc # NoExc \/ ~Truthy(PyList(res.rows))
    THEN [pc |-> "responded", response |-> NoDataResponse,
          stages |-> <<"Extracted", "NoDataSkipped", "Responded">>]
    ELSE [pc |-> "extracted", response |-> NoResponse,
          stages |-> <<"Extracted">>]

\* A handler that calls the extractor again when it raises.
RunJobAfterFetchRetrying(res) ==
    IF res.exc # NoExc
    THEN [pc |-> "validated", response |-> NoResponse, stages |-> <<>>]
    ELSE IF ~Truthy(PyList(res.rows))
    THEN [pc |-> "responded", response |-> NoDataResponse,
          stages |-> <<"Extracted", "NoDataSkipped", "Responded">>]
    ELSE [pc |-> "extracted", response |-> NoResponse,
          stages |-> <<"Extracted">>]

\* A handler without the short-circuit of lines 42-44.
RunJobAfterFetchAlwaysLoading(res) ==
    IF res.exc # NoExc
    THEN [pc |-> "responded", response |-> ErrorResponse(res.exc),
          stages |-> <<"Failed", "Responded">>]
    ELSE [pc |-> "extracted", response |-> NoResponse,
          stages |-> <<"Extracted">>]

\* Lines 41-44 and 52-54: an exception of the extractor is caught and
\* answered with 500; an empty list is answered at once; otherwise the
\* loader is called next.
RunJobAfterFetch(res) ==
    IF res.exc # NoExc
    THEN [pc |-> "responded", response |-> ErrorResponse(res.exc),
          stages |-> <<"Failed", "Responded">>]
    ELSE IF ~Truthy(PyList(res.rows))
    THEN [pc |-> "responded", response |-> NoDataResponse,
          stages |-> <<"Extracted", "NoDataSkipped", "Responded">>]
    ELSE [pc |-> "extracted", response |-> NoResponse,
          stages |-> <<"Extracted">>]

\* A handler that reports the number of distinct rows.
RunJobAfterLoadCountingDistinct(exc, rows) ==
    IF exc # NoExc
    THEN [pc |-> "responded", response |-> ErrorResponse(exc),
          stages |-> <<"Failed", "Responded">>]
    ELSE [pc |-> "responded",
          response |-> SuccessResponse(
                           Cardinality({rows[i] : i \in 1..Len(rows)})),
          stages |-> <<"Loaded", "Responded">>]

\* Lines 47-54: an exception of the loader is caught and answered with
\* 500; otherwise the answer carries len(ads_data).
RunJobAfterLoad(exc, rows) ==
    IF exc # NoExc
    THEN [pc |-> "responded", response |-> ErrorResponse(exc),
          stages |-> <<"Failed", "Responded">>]
    ELSE [pc |-> "responded", response |-> SuccessResponse(Len(rows)),
          stages |-> <<"Loaded", "Responded">>]

\* The row of tbl removed for each row of written (its last occurrence).
RECURSIVE RemoveRows(_, _)
RemoveRows(tbl, written) ==
    IF written = <<>> THEN tbl
    ELSE LET w == Head(written)
             at == {i \in 1..Len(tbl) : tbl[i] = w}
             last == CHOOSE i \in at : \A j \in at : j <= i
         IN IF at = {} THEN RemoveRows(tbl, Tail(written))
            ELSE RemoveRows(SubSeq(tbl, 1, last - 1)
                                \o SubSeq(tbl, last + 1, Len(tbl)),
                            Tail(written))

\* A destination that skips the rows the table already holds.
TableAfterInsertDedup(tbl, written) ==
    tbl \o SelectSeq(written,
                     LAMBDA w : ~\E i \in 1..Len(tbl) : tbl[i] = w)

\* The table after the destination served the insert of line 102: the rows
\* it accepted are appended.
TableAfterInsert(tbl, written) == tbl \o written

\* A loader that takes the written rows back when an error is reported.
TableAfterLoadRollingBack(tbl, written, exc) ==
    IF exc # NoExc THEN RemoveRows(tbl, written) ELSE tbl

\* The table after lines 103-105: nothing is done to the rows the insert
\* wrote, whether line 105 raises or not.
TableAfterLoad(tbl, written, exc) == tbl

(***************************************************************************)
(* The service: concurrent executions of run_job (lines 26-54), one per    *)
(* request, sharing the destination table.  An execution is cut where it   *)
(* waits for a collaborator: inside search_stream (line 78), at every      *)
(* batch of the stream (line 81) and inside insert_rows_json (line 102),   *)
(* where the destination's write comes before the call's return.           *)
(***************************************************************************)
Requests == {"r1", "r2"}

Date1 == PyStr(<<"2", "0", "2", "4", "-", "0", "1", "-", "0", "1">>)
Date2 == PyStr(<<"2", "0", "2", "4", "-", "0", "1", "-", "3", "1">>)

\* The JSON values a request may carry.
JsonValues ==
    { PyNone, PyBool(FALSE), PyBool(TRUE), PyInt(0), PyInt(5),
      PyStr(<<>>), PyStr(<<"a", "b", "c">>),
      PyStr(K_start_date \o <<" ">> \o K_end_date),
      PyList(<<>>), PyList(<<PyStr(K_start_date)>>),
      PyList(<<PyStr(K_start_date), PyStr(K_end_date)>>),
      PyDict(<<>>),
      PyDict([k \in {K_start_date} |-> Date1]),
      PyDict([k \in {K_end_date} |-> Date2]),
      PyDict([k \in {K_start_date, K_end_date, <<"x">>} |->
                 IF k = K_start_date THEN Date1
                 ELSE IF k = K_end_date THEN Date2 ELSE PyInt(5)]) }

Bodies == {AbsentBody, NotJsonBody} \cup {JsonBody(val) : val \in JsonValues}

\* No answer of the destination is on its way.
NoAnswer == [errors |-> <<>>, written |-> <<>>]

Init ==
    /\ pc = [r \in Requests |-> "idle"]
    /\ http_body = [r \in Requests |-> AbsentBody]
    /\ rows_to_insert = [r \in Requests |-> <<>>]
    /\ nBatches = [r \in Requests |-> 0]
    /\ ads_data = [r \in Requests |-> <<>>]
    /\ raised = [r \in Requests |-> NotRaised]
    /\ answer = [r \in Requests |-> NoAnswer]
    /\ errors = [r \in Requests |-> <<>>]
    /\ completed = [r \in Requests |-> {}]
    /\ response = [r \in Requests |-> NoResponse]
    /\ path = [r \in Requests |-> <<>>]
    /\ nExtract = [r \in Requests |-> 0]
    /\ nLoad = [r \in Requests |-> 0]
    /\ submitted = [r \in Requests |-> <<>>]
    /\ table = <<>>
    /\ platform = [fail |-> "none", stream |-> <<>>]
    /\ fetched = [done |-> FALSE, exc |-> NoExc, rows |-> <<>>]

\* Lines 26-37: flask hands the request to run_job, which validates it.
Receive(r, b) ==
    /\ pc[r] = "idle"
    /\ http_body' = [http_body EXCEPT ![r] = b]
    /\ LET v == Validate(get_json(b))
       IN /\ pc' = [pc EXCEPT ![r] = IF v = "ok" THEN "validated"
                                     ELSE "responded"]
          /\ path' = [path EXCEPT ![r] =
                        IF v = "ok" THEN <<"Received", "Validated">>
                        ELSE <<"Received", "Failed", "Responded">>]
          /\ response' = [response EXCEPT ![r] =
                            CASE v = "ok" -> NoResponse
                              [] v = "invalid" -> InvalidRequestResponse
                              [] v = "TypeError" -> FlaskInternalServerError]
          /\ raised' = [raised EXCEPT ![r] =
                          IF v = "TypeError"
                          THEN [at |-> "validate", exc |-> Exc("TypeError")]
                          ELSE NotRaised]
    /\ UNCHANGED <<rows_to_insert, nBatches, ads_data, answer, errors,
                   completed, nExtract, nLoad, submitted, table, platform,
                   fetched>>

\* Lines 41-54, when fetch_google_ads_data raises exc: the exception is
\* caught at line 52 and answered.
FetchRaises(r, exc) ==
    LET after == RunJobAfterFetch([exc |-> exc, rows |-> <<>>])
    IN /\ raised' = [raised EXCEPT ![r] = [at |-> "fetch", exc |-> exc]]
       /\ pc' = [pc EXCEPT ![r] = after.pc]
       /\ response' = [response EXCEPT ![r] = after.response]
       /\ path' = [path EXCEPT ![r] = @ \o after.stages]

\* Lines 41 and 56-78: run_job calls the extractor, which builds its client
\* (lines 60-63: fail names the call that raises, "none" when none does)
\* and sends the query of lines 66-76; the execution then waits inside
\* search_stream.
CallFetch(r, fail) ==
    /\ pc[r] = "validated"
    /\ nExtract' = [nExtract EXCEPT ![r] = @ + 1]
    /\ IF fail = "none"
       THEN /\ pc' = [pc EXCEPT ![r] = "searching"]
            /\ UNCHANGED <<raised, response, path>>
       ELSE FetchRaises(r, Exc(fail))
    /\ UNCHANGED <<http_body, rows_to_insert, nBatches, ads_data, answer,
                   errors, completed, nLoad, submitted, table, platform,
                   fetched>>

\* Lines 78-80: search_stream returns the stream and the loop of line 81
\* waits for its first batch, or search_stream raises.
SearchStream(r, fail) ==
    /\ pc[r] = "searching"
    /\ IF fail = "none"
       THEN /\ pc' = [pc EXCEPT ![r] = "streaming"]
            /\ rows_to_insert' = [rows_to_insert EXCEPT ![r] = <<>>]
            /\ nBatches' = [nBatches EXCEPT ![r] = 0]
            /\ UNCHANGED <<raised, response, path>>
       ELSE /\ FetchRaises(r, Exc(fail))
            /\ UNCHANGED <<rows_to_insert, nBatches>>
    /\ UNCHANGED <<http_body, ads_data, answer, errors, completed, nExtract,
                   nLoad, submitted, table, platform, fetched>>

\* Lines 81-94: the stream delivers a batch, whose records are mapped and
\* appended; the loop then waits for the next batch.
NextBatch(r, results) ==
    /\ pc[r] = "streaming"
    /\ nBatches[r] < MaxBatches
    /\ Len(rows_to_insert[r]) + Len(results) <= MaxRows
    /\ rows_to_insert' = [rows_to_insert EXCEPT ![r] = AppendBatch(@, results)]
    /\ nBatches' = [nBatches EXCEPT ![r] = @ + 1]
    /\ UNCHANGED <<pc, http_body, ads_data, raised, answer, errors, completed,
                   response, path, nExtract, nLoad, submitted, table,
                   platform, fetched>>

\* Line 81: the stream breaks while the loop waits for a batch; the rows
\* collected so far are lost with the extractor's frame.
StreamRaises(r) ==
    /\ pc[r] = "streaming"
    /\ FetchRaises(r, Exc("stream"))
    /\ rows_to_insert' = [rows_to_insert EXCEPT ![r] = <<>>]
    /\ nBatches' = [nBatches EXCEPT ![r] = 0]
    /\ UNCHANGED <<http_body, ads_data, answer, errors, completed, nExtract,
                   nLoad, submitted, table, platform, fetched>>

\* Lines 81, 95 and 41-44: the stream ends, the extractor returns its list
\* and run_job answers at once when the list is empty.
FetchReturns(r) ==
    /\ pc[r] = "streaming"
    /\ LET after == RunJobAfterFetch([exc |-> NoExc,
                                      rows |-> rows_to_insert[r]])
       IN /\ ads_data' = [ads_data EXCEPT ![r] = rows_to_insert[r]]
          /\ completed' = [completed EXCEPT ![r] = @ \cup {"fetch"}]
          /\ pc' = [pc EXCEPT ![r] = after.pc]
          /\ response' = [response EXCEPT ![r] = after.response]
          /\ path' = [path EXCEPT ![r] = @ \o after.stages]
    /\ rows_to_insert' = [rows_to_insert EXCEPT ![r] = <<>>]
    /\ nBatches' = [nBatches EXCEPT ![r] = 0]
    /\ UNCHANGED <<http_body, raised, answer, errors, nExtract, nLoad,
                   submitted, table, platform, fetched>>

\* Lines 47 and 98-102: run_job calls the loader, which sends the whole
\* list to the destination; the execution then waits inside
\* insert_rows_json.
CallLoad(r) ==
    /\ pc[r] = "extracted"
    /\ nLoad' = [nLoad EXCEPT ![r] = @ + 1]
    /\ submitted' = [submitted EXCEPT ![r] = Append(@, ads_data[r])]
    /\ pc' = [pc EXCEPT ![r] = "inserting"]
    /\ UNCHANGED <<http_body, rows_to_insert, nBatches, ads_data, raised,
                   answer, errors, completed, response, path, nExtract, table,
                   platform, fetched>>

\* Line 102, at the destination: it writes the rows it accepts and sends
\* back one error descriptor for each row it rejects.
DestinationWrites(r, rejected) ==
    /\ pc[r] = "inserting"
    /\ LET ins == insert_rows_json(submitted[r][Len(submitted[r])], rejected)
       IN /\ table' = TableAfterInsert(table, ins.written)
          /\ answer' = [answer EXCEPT ![r] = ins]
    /\ pc' = [pc EXCEPT ![r] = "inserted"]
    /\ UNCHANGED <<http_body, rows_to_insert, nBatches, ads_data, raised,
                   errors, completed, response, path, nExtract, nLoad,
                   submitted, platform, fetched>>

\* Lines 102 and 52-54: insert_rows_json itself raises, either before the
\* destination wrote anything (the table is not found, the destination is
\* not reached) or after it wrote (its answer is lost, the read times out):
\* errors is never assigned, the table is left as the destination left it,
\* and the exception is caught at line 52 and answered.
InsertRaises(r) ==
    /\ pc[r] \in {"inserting", "inserted"}
    /\ LET exc == Exc("insert_rows_json")
           after == RunJobAfterLoad(exc, ads_data[r])
       IN /\ raised' = [raised EXCEPT ![r] = [at |-> "load", exc |-> exc]]
          /\ pc' = [pc EXCEPT ![r] = after.pc]
          /\ response' = [response EXCEPT ![r] = after.response]
          /\ path' = [path EXCEPT ![r] = @ \o after.stages]
    /\ UNCHANGED <<http_body, rows_to_insert, nBatches, ads_data, answer,
                   errors, completed, nExtract, nLoad, submitted, table,
                   platform, fetched>>

\* Lines 102-105 and 49-54: insert_rows_json returns the destination's
\* error list; the loader raises when it is not empty, and run_job answers.
InsertReturns(r) ==
    /\ pc[r] = "inserted"
    /\ LET exc == LoadRaises(ads_data[r], answer[r].errors)
           after == RunJobAfterLoad(exc, ads_data[r])
       IN /\ errors' = [errors EXCEPT ![r] = answer[r].errors]
          /\ completed' = [completed EXCEPT ![r] = @ \cup {"insert"}]
          /\ table' = TableAfterLoad(table, answer[r].written, exc)
          /\ raised' = [raised EXCEPT ![r] =
                          IF exc # NoExc
                          THEN [at |-> "load", exc |-> exc] ELSE @]
          /\ pc' = [pc EXCEPT ![r] = after.pc]
          /\ response' = [response EXCEPT ![r] = after.response]
          /\ path' = [path EXCEPT ![r] = @ \o after.stages]
    /\ UNCHANGED <<http_body, rows_to_insert, nBatches, ads_data, answer,
                   nExtract, nLoad, submitted, platform, fetched>>

Next ==
    \E r \in Requests :
        \/ \E b \in Bodies : Receive(r, b)
        \/ \E fail \in {"none", "safe_load", "load_from_dict", "get_service"} :
               CallFetch(r, fail)
        \/ \E fail \in {"none", "search_stream"} : SearchStream(r, fail)
        \/ \E results \in SeqsUpTo(ServiceRecords, MaxRows) :
               NextBatch(r, results)
        \/ StreamRaises(r)
        \/ FetchReturns(r)
        \/ CallLoad(r)
        \/ \E rejected \in SUBSET (0..(Len(ads_data[r]) - 1)) :
               DestinationWrites(r, rejected)
        \/ InsertRaises(r)
        \/ InsertReturns(r)

Spec == Init /\ [][Next]_vars

\* A started execution is scheduled, every call to a collaborator returns
\* or raises, and a stream ends or breaks.
FairSpec ==
    /\ Spec
    /\ \A r \in Requests :
        /\ WF_vars(\E fail \in {"none", "safe_load", "load_from_dict",
                                "get_service"} : CallFetch(r, fail))
        /\ WF_vars(\E fail \in {"none", "search_stream"} :
                       SearchStream(r, fail))
        /\ WF_vars(\/ \E results \in SeqsUpTo(ServiceRecords, MaxRows) :
                          NextBatch(r, results)
                   \/ StreamRaises(r)
                   \/ FetchReturns(r))
        /\ WF_vars(CallLoad(r))
        /\ WF_vars(\/ \E rejected \in SUBSET (0..(Len(ads_data[r]) - 1)) :
                          DestinationWrites(r, rejected)
                   \/ InsertRaises(r))
        /\ WF_vars(InsertReturns(r))

(***************************************************************************)
(* The extractor taken alone: fetch_google_ads_data applied to every       *)
(* behaviour of the platform within the bounds.                            *)
(***************************************************************************)
FetchInit ==
    /\ pc = [r \in Requests |-> "idle"]
    /\ http_body = [r \in Requests |-> AbsentBody]
    /\ rows_to_insert = [r \in Requests |-> <<>>]
    /\ nBatches = [r \in Requests |-> 0]
    /\ ads_data = [r \in Requests |-> <<>>]
    /\ raised = [r \in Requests |-> NotRaised]
    /\ answer = [r \in Requests |-> NoAnswer]
    /\ errors = [r \in Requests |-> <<>>]
    /\ completed = [r \in Requests |-> {}]
    /\ response = [r \in Requests |-> NoResponse]
    /\ path = [r \in Requests |-> <<>>]
    /\ nExtract = [r \in Requests |-> 0]
    /\ nLoad = [r \in Requests |-> 0]
    /\ submitted = [r \in Requests |-> <<>>]
    /\ table = <<>>
    /\ platform \in PlatformOutcomes(ExtractorStreams)
    /\ fetched = [done |-> FALSE, exc |-> NoExc, rows |-> <<>>]

Fetch ==
    /\ ~fetched.done
    /\ LET res == fetch_google_ads_data(Date1, Date2, platform)
       IN fetched' = [done |-> TRUE, exc |-> res.exc, rows |-> res.rows]
    /\ UNCHANGED <<pc, http_body, rows_to_insert, nBatches, ads_data, raised,
                   answer, errors, completed, response, path, nExtract, nLoad,
                   submitted, table, platform>>

FetchNext == Fetch

FetchSpec == FetchInit /\ [][FetchNext]_vars



(***************************************************************************)
(* Properties of the service.                                              *)
(***************************************************************************)
IsPrefix(s, t) == Len(s) <= Len(t) /\ SubSeq(t, 1, Len(s)) = s

\* The body is a JSON object with a start_date and an end_date member.
CarriesBothFields(b) ==
    /\ b.kind = "json"
    /\ b.value.t = "dict"
    /\ K_start_date \in DOMAIN b.value.v
    /\ K_end_date \in DOMAIN b.value.v

\* C1: a request whose body is absent, is not JSON, or is a JSON value of
\* any type without both a start_date and an end_date field is answered with
\* status 400, and neither the extractor nor the loader is called for it.
C1_InvalidPayloadAnswered400 ==
    \A r \in Requests :
        (pc[r] # "idle" /\ ~CarriesBothFields(http_body[r])) =>
            /\ response[r].status = 400
            /\ nExtract[r] = 0
            /\ nLoad[r] = 0

\* C2: when the extractor returns an empty list for a validated request,
\* the response is 200 "Successfully completed. No data to load." and the
\* loader is not called; the loader is never handed an empty list.
C2_NoDataSkipsLoader ==
    \A r \in Requests :
        /\ ("fetch" \in completed[r] /\ ads_data[r] = <<>>) =>
              /\ pc[r] = "responded"
              /\ response[r].status = 200
              /\ response[r].body.text = "Successfully completed. No data to load."
              /\ nLoad[r] = 0
        /\ \A i \in 1..Len(submitted[r]) : submitted[r][i] # <<>>

C2_Witness ==
    \E r \in Requests :
        /\ nExtract[r] = 1
        /\ "fetch" \in completed[r]
        /\ raised[r].at = "none"
        /\ ads_data[r] = <<>>
        /\ response[r] = NoDataResponse
        /\ nLoad[r] = 0

\* C3: when the insert returns a non-empty error list, the loader raises
\* and the response is 500 "An error occurred: <description>" where the
\* description carries the reported errors; never 200 "Success: ...".
C3_InsertErrorsAnswered500 ==
    \A r \in Requests :
        errors[r] # <<>> =>
            /\ raised[r].at = "load"
            /\ response[r].status = 500
            /\ response[r].body.text = "An error occurred: {e}"
            /\ response[r].body.e.msg = "BigQuery load job failed: {errors}"
            /\ response[r].body.e.errors = errors[r]

C3_Witness ==
    \E r \in Requests :
        /\ nLoad[r] = 1
        /\ Len(errors[r]) = Len(ads_data[r])
        /\ Len(errors[r]) >= 2
        /\ response[r].status = 500

\* C4: when the extractor raises, at whatever stage, the response is 500
\* "An error occurred: <description>" carrying the exception's description,
\* and the loader is not called for that request.
C4_ExtractorFailureAnswered500 ==
    \A r \in Requests :
        raised[r].at = "fetch" =>
            /\ pc[r] = "responded"
            /\ response[r].status = 500
            /\ response[r].body.text = "An error occurred: {e}"
            /\ response[r].body.e = raised[r].exc
            /\ raised[r].exc # NoExc
            /\ nLoad[r] = 0

C4_Witness ==
    \E r, q \in Requests :
        /\ raised[r].at = "fetch" /\ raised[r].exc.msg = "safe_load"
        /\ raised[q].at = "fetch" /\ raised[q].exc.msg = "stream"
        /\ response[q].status = 500

\* C6: when the extractor returned a non-empty list and the insert returned
\* an empty error list, the response is 200 "Success: Loaded N rows." with N the length
\* of the extracted list, which is the one batch handed to the insert.
C6_SuccessCountsExtractedRows ==
    \A r \in Requests :
        ("insert" \in completed[r] /\ ads_data[r] # <<>> /\ errors[r] = <<>>) =>
            /\ response[r].status = 200
            /\ response[r].body.text = "Success: Loaded {n} rows."
            /\ response[r].body.n = Len(ads_data[r])
            /\ submitted[r] = <<ads_data[r]>>

C6_Witness ==
    \E r \in Requests :
        /\ nLoad[r] = 1
        /\ "insert" \in completed[r]
        /\ errors[r] = <<>>
        /\ Len(ads_data[r]) = 2
        /\ ads_data[r][1] = ads_data[r][2]
        /\ response[r].body.n = 2

\* The rows of request r's batch that the insert did not report.
AcceptedRows(r) ==
    LET bad == {errors[r][j].index : j \in 1..Len(errors[r])}
        kept == {i \in 1..Len(ads_data[r]) : (i - 1) \notin bad}
        nth(k) == CHOOSE i \in kept : Cardinality({j \in kept : j <= i}) = k
    IN [k \in 1..Cardinality(kept) |-> ads_data[r][nth(k)]]

ContainsBlock(t, blk) ==
    \E i \in 0..(Len(t) - Len(blk)) : SubSeq(t, i + 1, i + Len(blk)) = blk

PartiallyAccepted(r) ==
    errors[r] # <<>> /\ Len(errors[r]) < Len(ads_data[r])

\* C9: when the destination accepts some rows of the batch and rejects
\* others, the response is 500 and the accepted rows stay in the table; no
\* status reports partial success (200 is sent only without errors).
C9_PartialLoadFailsWithoutRollback ==
    \A r \in Requests :
        /\ PartiallyAccepted(r) =>
              /\ response[r].status = 500
              /\ ContainsBlock(table, AcceptedRows(r))
              /\ AcceptedRows(r) = answer[r].written
        /\ (pc[r] = "responded" /\ answer[r].errors # <<>>
                /\ answer[r].written # <<>>) =>
              /\ response[r].status = 500
              /\ ContainsBlock(table, answer[r].written)
        /\ response[r].status \in {0, 200, 400, 500}
        /\ response[r].status = 200 => errors[r] = <<>>

C9_Witness ==
    \E r \in Requests :
        /\ PartiallyAccepted(r)
        /\ pc[r] = "responded"
        /\ response[r].status = 500
        /\ AcceptedRows(r) # <<>>
        /\ \A q \in Requests : pc[q] = "responded"

\* The paths of section 4.4, from Received to Responded.
AllowedPaths ==
    { <<"Received", "Validated", "Extracted", "Loaded", "Responded">>,
      <<"Received", "Validated", "Extracted", "NoDataSkipped", "Responded">>,
      <<"Received", "Failed", "Responded">>,
      <<"Received", "Validated", "Failed", "Responded">>,
      <<"Received", "Validated", "Extracted", "Failed", "Responded">> }

PathInvariant ==
    \A r \in Requests :
        /\ \E p \in AllowedPaths : IsPrefix(path[r], p)
        /\ pc[r] = "responded" <=> path[r] \in AllowedPaths
        /\ pc[r] = "responded" <=> response[r] # NoResponse
        /\ nExtract[r] <= 1
        /\ nLoad[r] <= 1
        /\ nExtract[r] = 1 =>
              /\ IsPrefix(<<"Received", "Validated">>, path[r])
              /\ CarriesBothFields(http_body[r])
        /\ nLoad[r] = 1 =>
              /\ IsPrefix(<<"Received", "Validated", "Extracted">>, path[r])
              /\ nExtract[r] = 1
              /\ "fetch" \in completed[r]
              /\ raised[r].at # "fetch"
        /\ "fetch" \in completed[r] => nExtract[r] = 1
        /\ "insert" \in completed[r] => nLoad[r] = 1

\* A response, once sent, is the only one.
RespondsOnce ==
    \A r \in Requests :
        pc[r] = "responded" =>
            pc'[r] = "responded" /\ response'[r] = response[r]

\* C5: every execution of run_job follows one of the paths Received ->
\* Validated -> Extracted -> (Loaded | NoDataSkipped) -> Responded or
\* Received -> ... -> Failed -> Responded: it ends with exactly one
\* response, the extractor runs only after validation succeeded, the loader
\* only after the extractor returned, and each is called at most once.
C5_OnePathOneResponse ==
    /\ []PathInvariant
    /\ [][RespondsOnce]_vars
    /\ \A r \in Requests : (pc[r] # "idle") ~> (pc[r] = "responded")

C5_Witness ==
    /\ path["r1"] = <<"Received", "Validated", "Extracted", "Loaded", "Responded">>
    /\ path["r2"] = <<"Received", "Validated", "Extracted", "Failed", "Responded">>
    /\ nExtract["r1"] = 1 /\ nLoad["r1"] = 1
    /\ nExtract["r2"] = 1 /\ nLoad["r2"] = 1

\* A step leaves the table's rows in place, adding rows at its end only.
AppendOnlyStep == IsPrefix(table, table')

\* What request q holds: the state of its execution of run_job.
Holds(q) ==
    <<pc[q], http_body[q], rows_to_insert[q], nBatches[q], ads_data[q],
      raised[q], answer[q], errors[q], completed[q], response[q], path[q],
      nExtract[q], nLoad[q], submitted[q]>>

\* A step of one request changes nothing of what another request holds.
IsolatedStep ==
    \E r \in Requests : \A q \in Requests \ {r} : Holds(q)' = Holds(q)

Succeeded(r) ==
    /\ pc[r] = "responded"
    /\ nLoad[r] = 1
    /\ "insert" \in completed[r]
    /\ errors[r] = <<>>
    /\ response[r].status = 200

\* When two loads succeeded the table holds the rows of both batches.
BothKept ==
    \A r, q \in Requests :
        (r # q /\ Succeeded(r) /\ Succeeded(q)) =>
            table \in {ads_data[r] \o ads_data[q], ads_data[q] \o ads_data[r]}

\* C10: under any interleaving of requests the table is only appended to
\* (nothing is removed, updated or deduplicated), so two successful loads
\* over overlapping data leave the rows of both in the table, and a step of
\* one request changes nothing another request's response is made from.
C10_ConcurrentRequestsOnlyAppend ==
    /\ [][AppendOnlyStep /\ IsolatedStep]_vars
    /\ []BothKept

C10_Witness ==
    /\ Succeeded("r1") /\ Succeeded("r2")
    /\ \E i \in 1..Len(ads_data["r1"]) : \E j \in 1..Len(ads_data["r2"]) :
           ads_data["r1"][i] = ads_data["r2"][j]
    /\ Len(table) = Len(ads_data["r1"]) + Len(ads_data["r2"])
    /\ Len(table) >= 3

(***************************************************************************)
(* Arithmetic for the properties of cost: natural numbers of any size as   *)
(* sequences of binary digits, most significant first, without leading     *)
(* zeros (zero is the empty sequence).                                     *)
(***************************************************************************)
Reverse(s) == [i \in 1..Len(s) |-> s[Len(s) + 1 - i]]

RECURSIVE StripZeros(_)
StripZeros(bits) ==
    IF bits = <<>> THEN <<>>
    ELSE IF Head(bits) = 0 THEN StripZeros(Tail(bits))
    ELSE bits

BigOfNat(n) == StripZeros(BitsOf(n))

\* Least significant digit first: bits * k + carry.
RECURSIVE MulLsb(_, _, _)
MulLsb(bits, k, carry) ==
    IF bits = <<>> THEN Reverse(BigOfNat(carry))
    ELSE LET t == Head(bits) * k + carry
         IN <<t % 2>> \o MulLsb(Tail(bits), k, t \div 2)

\* big * k and big + d, for small natural numbers k and d.
BigMul(big, k) == StripZeros(Reverse(MulLsb(Reverse(big), k, 0)))
BigAdd(big, d) == StripZeros(Reverse(MulLsb(Reverse(big), 1, d)))

BigLeq(a, b) ==
    \/ Len(a) < Len(b)
    \/ /\ Len(a) = Len(b)
       /\ \/ a = b
          \/ \E i \in 1..Len(a) :
                 a[i] < b[i] /\ \A j \in 1..(i - 1) : a[j] = b[j]

\* float(n) for 0 <= n < 2^31 (exact).
FloatOfInt(n) ==
    IF n = 0 THEN FloatZero
    ELSE [sig |-> BitsOf(n) \o Zeros(SigBits - Len(BitsOf(n))),
          exp |-> Len(BitsOf(n)) - 1]

\* Python's f * k for a float f >= 0 and a small int k > 0: the binary64
\* value nearest to the product.
FloatMulInt(f, k) ==
    IF f = FloatZero THEN FloatZero
    ELSE LET p == BigMul(f.sig, k)
             e == f.exp - (SigBits - 1) + (Len(p) - 1)
         IN IF Len(p) <= SigBits
            THEN [sig |-> p \o Zeros(SigBits - Len(p)), exp |-> e]
            ELSE RoundNearestEven(SubSeq(p, 1, SigBits + 1),
                                  \E i \in (SigBits + 2)..Len(p) : p[i] = 1,
                                  e)

\* f * 1000000 = x as real numbers: f is the quotient x / 1000000 itself.
IsExactQuotient(f, x) ==
    IF x = 0 THEN f = FloatZero
    ELSE /\ f # FloatZero
         /\ f.exp <= SigBits - 1
         /\ BigMul(f.sig, 1000000) = BigOfNat(x) \o Zeros(SigBits - 1 - f.exp)

\* |f - x / 1000000| is at most half a unit in the last place of f.
WithinHalfUlp(f, x) ==
    IF x = 0 THEN f = FloatZero
    ELSE /\ f # FloatZero
         /\ f.exp <= SigBits
         /\ LET a == BigMul(f.sig, 2000000)
                b == BigOfNat(x) \o Zeros(SigBits - f.exp)
            IN BigLeq(a, BigAdd(b, 1000000)) /\ BigLeq(b, BigAdd(a, 1000000))

(***************************************************************************)
(* Properties of the extractor.                                            *)
(***************************************************************************)
RECURSIVE TotalRecords(_)
TotalRecords(batches) ==
    IF batches = <<>> THEN 0
    ELSE Len(Head(batches)) + TotalRecords(Tail(batches))

\* The i-th record of a stream, counting through its batches in order.
RECURSIVE RecordAt(_, _)
RecordAt(batches, i) ==
    IF i <= Len(Head(batches)) THEN Head(batches)[i]
    ELSE RecordAt(Tail(batches), i - Len(Head(batches)))

Returned == fetched.done /\ fetched.exc = NoExc

\* C7: the rows fetch_google_ads_data returns are the records of all the
\* batches of the stream in order, one row per record: as many rows as
\* records, the i-th row mapped from the i-th record, equal records kept.
C7_RowsAreStreamInOrder ==
    (fetched.done /\ platform.fail = "none") =>
        /\ fetched.exc = NoExc
        /\ Len(fetched.rows) = TotalRecords(platform.stream)
        /\ \A i \in 1..Len(fetched.rows) :
               fetched.rows[i] = MapRow(RecordAt(platform.stream, i))

C7_Witness ==
    /\ Returned
    /\ Len(platform.stream) = 2
    /\ Len(platform.stream[1]) = 1 /\ Len(platform.stream[2]) = 1
    /\ platform.stream[1][1] = platform.stream[2][1]
    /\ Len(fetched.rows) = 2

\* The fields of row i other than cost are those of record i.
OtherFieldsUnchanged(i) ==
    LET rec == RecordAt(platform.stream, i)
        row == fetched.rows[i]
    IN /\ row.event_date = rec.segments.date
       /\ row.external_customer_id = rec.customer.id
       /\ row.campaign_id = rec.campaign.id

\* C8: for every record, the row's cost is the record's cost_micros divided
\* by 1,000,000 exactly, that is cost * 1_000_000 == cost_micros, and the
\* row's event_date, external_customer_id and campaign_id are the record's.
C8_CostTimesMillionIsMicros ==
    Returned =>
        \A i \in 1..Len(fetched.rows) :
            /\ FloatMulInt(fetched.rows[i].cost, 1000000)
                   = FloatOfInt(RecordAt(platform.stream, i).metrics.cost_micros)
            /\ OtherFieldsUnchanged(i)

\* 123 + 2^-46, the binary64 value after 123.0, which Python prints as
\* 123.00000000000001 (0x1.ec00000000001p+6).
FloatAfter123 ==
    [sig |-> <<1, 1, 1, 1, 0, 1, 1>> \o Zeros(SigBits - 8) \o <<1>>,
     exp |-> 6]

\* C8, amended: the row's cost is the binary64 value within half a unit in
\* the last place of cost_micros / 1,000,000; it is the quotient itself, and
\* cost * 1_000_000 == cost_micros, when cost_micros is a multiple of 15625;
\* for other values cost is a rounded quotient and the product may or may
\* not give cost_micros back: for 123 it is 123.00000000000001, for 1 and
\* 2147483647 it is cost_micros; the other fields are the record's.
C8_CostIsNearestDouble ==
    Returned =>
        \A i \in 1..Len(fetched.rows) :
            LET micros == RecordAt(platform.stream, i).metrics.cost_micros
                cost == fetched.rows[i].cost
            IN /\ WithinHalfUlp(cost, micros)
               /\ IsExactQuotient(cost, micros) <=> micros % 15625 = 0
               /\ micros % 15625 = 0 =>
                      FloatMulInt(cost, 1000000) = FloatOfInt(micros)
               /\ micros = 123 =>
                      /\ FloatMulInt(cost, 1000000) = FloatAfter123
                      /\ FloatAfter123 # FloatOfInt(123)
               /\ micros \in {1, 2147483647} =>
                      FloatMulInt(cost, 1000000) = FloatOfInt(micros)
               /\ OtherFieldsUnchanged(i)

C8_Witness ==
    /\ Returned
    /\ \E i, j \in 1..Len(fetched.rows) :
           /\ RecordAt(platform.stream, i).metrics.cost_micros = 123
           /\ FloatMulInt(fetched.rows[i].cost, 1000000) = FloatAfter123
           /\ RecordAt(platform.stream, j).metrics.cost_micros = 1500000
           /\ fetched.rows[j].cost = [sig |-> <<1, 1>> \o Zeros(SigBits - 2),
                                      exp |-> 0]

=============================================================================
